---- MODULE Spec2Model ----
(***************************************************************************)
(* The router worker of src/workers/liboqs_worker.js (lines 260-673): one  *)
(* single-threaded message loop that routes hx.request messages to warm    *)
(* backend workers, correlates worker.response messages through a pending  *)
(* table with timeout timers, and adapts the legacy liboqs worker.         *)
(*                                                                         *)
(* Every action is one run-to-completion handler of the router: a message  *)
(* from the caller (self.onmessage), a message from a backend worker       *)
(* (worker.onmessage), a backend worker's error callback (worker.onerror)  *)
(* or the expiry of a request timer (the setTimeout callback).             *)
(*                                                                         *)
(* Texts (request ids, paths, prefixes) are sequences of one-character     *)
(* strings, so that startsWith and escapeHtml are computed character by    *)
(* character.  JavaScript values whose type the code tests are records     *)
(* [t |-> type, v |-> value].                                              *)
(***************************************************************************)
EXTENDS Integers, Sequences, FiniteSets, TLC

VARIABLES
    requestTimeoutMs,       \* state.requestTimeoutMs
    routes,                 \* state.routes: sequence of [prefix, worker]
    workerDefs,             \* state.workerDefs: name -> [mode]
    workers,                \* state.workers: name -> [mode, ready]
    pending,                \* state.pending: insertion-ordered map, a sequence of [id, workerName, timeoutId]
    activeLegacyByWorker,   \* state.activeLegacyByWorker: name -> request id
    timers,                 \* armed setTimeout callbacks: set of [h, id]
    out,                    \* messages the last handler posted to the caller, in order, not yet delivered
    sent,                   \* messages the last handler posted to backend workers, in order, not yet delivered
    owed,                   \* history: per request id, hx.requests received minus hx.responses emitted
    dup,                    \* history: per request id, it was requested again while a request with it was unanswered
    created,                \* history: per worker name, Worker objects constructed
    nReq,                   \* history: hx.request messages handled so far
    declared,               \* history: msg.routes of the last control.init that carried a route list
    routed,                 \* history: worker names a request was dispatched to through the native adapter
    readySent,              \* history: worker names whose worker posted worker.ready
    \* the liboqs test worker (src/workers/liboqs_worker.js lines 1-147)
    running,                \* running
    pyodideReady,           \* pyodideReady: "null", or the promise "loading", "resolved", "rejected"
    logBuffer,              \* logBuffer.length
    phase,                  \* where the accepted run stands: "idle", "init" (await initPyodide), "python" (await runPythonAsync)
    inbox,                  \* messages posted to the liboqs worker, not yet handled by it
    posted,                 \* messages the liboqs worker posted, not yet handled by their receiver
    runLog,                 \* history: the states of the status messages of the last accepted run
    nRuns,                  \* history: runs accepted so far
    \* the crypto worker (src/workers/crypto_worker.js)
    port,                   \* port: "null" or "set" (with handleRequest as its onmessage)
    keypair,                \* keypair: "null" or "set"
    requests,               \* history: the requests delivered to the port, in order
    replies                 \* messages the crypto worker posted to the port, in order

routerVars == <<requestTimeoutMs, routes, workerDefs, workers, pending, activeLegacyByWorker,
                timers, out, sent, owed, dup, created, nReq, declared, routed, readySent>>

liboqsVars == <<running, pyodideReady, logBuffer, phase, inbox, posted, runLog, nRuns>>

cryptoVars == <<port, keypair, requests, replies>>

vars == <<routerVars, liboqsVars, cryptoVars>>

-----------------------------------------------------------------------------
(* Bounds of the model *)

MaxRequests == 3

\* longest route list of a control.init message in SpecMatch
MaxRoutes == 3

-----------------------------------------------------------------------------
(* Program constants *)

DEFAULT_TIMEOUT_MS == 30000

\* "/hx/tests/liboqs/run", the one path the legacy adapter serves
LegacyRunPath == <<"/","h","x","/","t","e","s","t","s","/","l","i","b","o","q","s","/","r","u","n">>

ModeLegacy == "legacy-liboqs"
ModeProtocol == "protocol"

-----------------------------------------------------------------------------
(* Values *)

\* null; every site that can yield an empty id writes `id || null`
Null == <<>>

Str(s) == [t |-> "string", v |-> s]
Undefined == [t |-> "undefined", v |-> <<>>]
NotAString == [t |-> "number", v |-> <<>>]

Num(n) == [fin |-> TRUE, n |-> n]
NotFinite == [fin |-> FALSE, n |-> 0]

R1 == <<"r","1">>
R2 == <<"r","<">>
Ids == {R1, R2}

WA == "wa"
WL == "wl"
WZ == "wz"
WorkerNames == {WA, WL, WZ}

PathA == <<"/","a","/","x">>
PathNone == <<"/","z","<","&">>
PathLegacyOther == <<"/","h","x","/","t","e","s","t","s","/","l","i","b","o","q","s","/","x">>
PrefixA == <<"/","a">>
PrefixLegacy == <<"/","h","x","/","t","e","s","t","s","/","l","i","b","o","q","s">>
PrefixZ == <<"/","z","z">>

-----------------------------------------------------------------------------
(* Pure helpers *)

RECURSIVE ReplaceAll(_, _, _)
ReplaceAll(s, c, rep) ==
    IF s = <<>> THEN <<>>
    ELSE (IF Head(s) = c THEN rep ELSE <<Head(s)>>) \o ReplaceAll(Tail(s), c, rep)

escapeHtml(raw) ==
    LET s1 == ReplaceAll(raw, "&", <<"&","a","m","p",";">>)
        s2 == ReplaceAll(s1, "<", <<"&","l","t",";">>)
        s3 == ReplaceAll(s2, ">", <<"&","g","t",";">>)
        s4 == ReplaceAll(s3, "\"", <<"&","q","u","o","t",";">>)
    IN  ReplaceAll(s4, "'", <<"&","#","3","9",";">>)

startsWith(path, prefix) ==
    /\ Len(prefix) <= Len(path)
    /\ SubSeq(path, 1, Len(prefix)) = prefix

\* Messages posted to the caller: one record shape for every kind.
OutMsg(kind, id, status, code, event, tag, detail) ==
    [kind |-> kind, id |-> id, status |-> status, code |-> code,
     event |-> event, tag |-> tag, detail |-> detail]

sendProtocolError(code, id) == OutMsg("error", id, 0, code, "", "", Null)

sendHxResponse(id, status, tag, detail) == OutMsg("hx.response", id, status, "", "", tag, detail)

sendEvent(id, event, detail) == OutMsg("event", id, 0, "", event, "", detail)

\* Messages posted to a backend worker.
WorkerPost(w, kind, id) == [to |-> w, kind |-> kind, id |-> id]

-----------------------------------------------------------------------------
(* state.pending: a Map, kept in insertion order *)

PendingIds(p) == {p[i].id : i \in 1..Len(p)}

PendingHas(p, id) == id \in PendingIds(p)

PendingGet(p, id) == p[CHOOSE i \in 1..Len(p) : p[i].id = id]

\* Map.set: an existing key keeps its position, a new key goes last
PendingSet(p, id, workerName, timeoutId) ==
    LET e == [id |-> id, workerName |-> workerName, timeoutId |-> timeoutId]
    IN  IF PendingHas(p, id)
        THEN [i \in 1..Len(p) |-> IF p[i].id = id THEN e ELSE p[i]]
        ELSE Append(p, e)

PendingDelete(p, id) == SelectSeq(p, LAMBDA e : e.id # id)

\* setTimeout's handle: handles are only compared while their timer is armed
\* (a pending entry never outlives its timer), so the least free one stands
\* for a fresh one.
NewTimer(tm) == CHOOSE h \in 1..(Cardinality(tm) + 1) : \A t \in tm : t.h # h

-----------------------------------------------------------------------------
(* Inputs: the control.init messages the caller may send *)

RouteEntry(prefix, worker) ==
    [obj |-> TRUE, prefix |-> Str(prefix), worker |-> [t |-> "string", v |-> worker]]

\* an entry the filter of normalizeRoutes drops: its prefix is not a string
BadRouteEntry == [obj |-> TRUE, prefix |-> NotAString, worker |-> [t |-> "string", v |-> WA]]

DefEntry(urlIsString, mode) == [obj |-> TRUE, urlIsString |-> urlIsString, mode |-> mode]
ModeStr(m) == [t |-> "string", v |-> m]
ModeAbsent == [t |-> "undefined", v |-> ""]

\* requestTimeoutMs as a fraction num/den, or a value that is not a finite number
Timeout(num, den) == [fin |-> TRUE, num |-> num, den |-> den]
NoTimeout == [fin |-> FALSE, num |-> 0, den |-> 1]

InitMsg(routesIsArray, rs, workersIsObject, ws, timeout) ==
    [routesIsArray |-> routesIsArray, routes |-> rs,
     workersIsObject |-> workersIsObject, workers |-> ws,
     requestTimeoutMs |-> timeout]

NoEntries == [n \in {} |-> DefEntry(TRUE, ModeAbsent)]

InitMsgs ==
    << \* the full configuration: two native workers and the legacy liboqs
       \* worker, a fractional timeout
       InitMsg(TRUE, <<RouteEntry(PrefixA, WA), RouteEntry(PrefixLegacy, WL),
                       RouteEntry(PrefixZ, WZ)>>,
               TRUE, [n \in {WA, WL, WZ} |->
                         IF n = WL THEN DefEntry(TRUE, ModeStr(ModeLegacy))
                         ELSE IF n = WZ THEN DefEntry(TRUE, ModeStr(ModeProtocol))
                         ELSE DefEntry(TRUE, ModeAbsent)],
               Timeout(5, 2)),
       \* no route list; wa redefined as a legacy worker and wl as a native
       \* one, a definition without url; a timeout that is not positive
       InitMsg(FALSE, <<>>,
               TRUE, [n \in {WA, WL, WZ} |->
                         IF n = WA THEN DefEntry(TRUE, ModeStr(ModeLegacy))
                         ELSE IF n = WL THEN DefEntry(TRUE, ModeStr(ModeProtocol))
                         ELSE DefEntry(FALSE, ModeAbsent)],
               Timeout(0, 1)),
       \* a smaller route list with a malformed entry, no worker definitions,
       \* no timeout
       InitMsg(TRUE, <<BadRouteEntry, RouteEntry(PrefixZ, WZ)>>,
               FALSE, NoEntries, NoTimeout) >>

-----------------------------------------------------------------------------
(* Registry and route table *)

RouteOk(r) == r.obj /\ r.prefix.t = "string" /\ r.worker.t = "string"

\* a sort that puts a later entry before the earlier ones of its length
RECURSIVE SortByPrefixLengthUnstable(_)
SortByPrefixLengthUnstable(rs) ==
    IF rs = <<>> THEN <<>>
    ELSE LET front == SubSeq(rs, 1, Len(rs) - 1)
             r == rs[Len(rs)]
             sorted == SortByPrefixLengthUnstable(front)
             before == SelectSeq(sorted, LAMBDA x : Len(x.prefix) > Len(r.prefix))
             after == SelectSeq(sorted, LAMBDA x : Len(x.prefix) <= Len(r.prefix))
         IN  before \o <<r>> \o after

\* Array.prototype.sort is stable: among equal lengths the declaration order stays
RECURSIVE SortByPrefixLength(_)
SortByPrefixLength(rs) ==
    IF rs = <<>> THEN <<>>
    ELSE LET front == SubSeq(rs, 1, Len(rs) - 1)
             r == rs[Len(rs)]
             sorted == SortByPrefixLength(front)
             before == SelectSeq(sorted, LAMBDA x : Len(x.prefix) >= Len(r.prefix))
             after == SelectSeq(sorted, LAMBDA x : Len(x.prefix) < Len(r.prefix))
         IN  before \o <<r>> \o after

normalizeRoutes(isArray, rs) ==
    IF ~isArray THEN <<>>
    ELSE LET kept == SelectSeq(rs, RouteOk)
             clean == [i \in 1..Len(kept) |->
                          [prefix |-> kept[i].prefix.v, worker |-> kept[i].worker.v]]
         IN  SortByPrefixLength(clean)

\* the test of a worker definition without the test of its url
DefOkWithoutUrl(d) == d.obj

DefOk(d) == d.obj /\ d.urlIsString

\* applyInit with a registry that holds the definitions of the message only
applyInitWorkersReplacing(defs, msg) ==
    IF ~msg.workersIsObject THEN defs
    ELSE LET valid == {n \in DOMAIN msg.workers : DefOk(msg.workers[n])}
         IN  [n \in valid |->
                 [mode |-> IF msg.workers[n].mode.t = "string"
                           THEN msg.workers[n].mode.v ELSE ModeProtocol]]

\* the registry after the loop over Object.entries(msg.workers)
applyInitWorkers(defs, msg) ==
    IF ~msg.workersIsObject THEN defs
    ELSE LET valid == {n \in DOMAIN msg.workers : DefOk(msg.workers[n])}
         IN  [n \in DOMAIN defs \cup valid |->
                 IF n \in valid
                 THEN [mode |-> IF msg.workers[n].mode.t = "string"
                                THEN msg.workers[n].mode.v ELSE ModeProtocol]
                 ELSE defs[n]]

\* applyInit adding the routes of the message to the ones it has
applyInitRoutesMerging(rs, msg) ==
    IF msg.routesIsArray
    THEN SortByPrefixLength(
             SelectSeq(rs, LAMBDA x : \A i \in 1..Len(msg.routes) :
                              ~(RouteOk(msg.routes[i]) /\ msg.routes[i].prefix.v = x.prefix))
             \o normalizeRoutes(TRUE, msg.routes))
    ELSE rs

applyInitRoutes(rs, msg) ==
    IF msg.routesIsArray THEN normalizeRoutes(TRUE, msg.routes) ELSE rs

applyInitTimeout(cur, msg) ==
    LET t == msg.requestTimeoutMs
    IN  IF t.fin /\ t.num > 0 THEN t.num \div t.den ELSE cur

\* 0 when no route matches, else the index of the first matching route
matchRoute(rs, path) ==
    IF \E i \in 1..Len(rs) : startsWith(path, rs[i].prefix)
    THEN CHOOSE i \in 1..Len(rs) :
            /\ startsWith(path, rs[i].prefix)
            /\ \A j \in 1..(i - 1) : ~startsWith(path, rs[j].prefix)
    ELSE 0

-----------------------------------------------------------------------------
(* Sessions, pending table *)

\* What a handler leaves behind: the parts of the state it may change, the
\* messages it posted, whether it constructed a Worker, whether it threw.
Same ==
    [workers |-> workers, pending |-> pending, timers |-> timers,
     active |-> activeLegacyByWorker, out |-> <<>>, sent |-> <<>>,
     made |-> "", threw |-> FALSE]

\* ensureWorker with `ready: true` for every mode
ensureWorkerBornReady(workerName, fault) ==
    IF workerName \in DOMAIN workers
    THEN Same
    ELSE IF workerName \notin DOMAIN workerDefs \/ fault = "create"
    THEN [Same EXCEPT !.threw = TRUE]
    ELSE [Same EXCEPT
            !.workers = [n \in DOMAIN workers \cup {workerName} |->
                            IF n = workerName
                            THEN [mode |-> workerDefs[workerName].mode, ready |-> TRUE]
                            ELSE workers[n]],
            !.sent = IF workerDefs[workerName].mode = ModeProtocol
                     THEN <<WorkerPost(workerName, "worker.init", Null)>>
                     ELSE <<>>,
            !.made = workerName]

\* ensureWorker without the lookup of an existing session
ensureWorkerNoReuse(workerName, fault) ==
    IF workerName \notin DOMAIN workerDefs \/ fault = "create"
    THEN [Same EXCEPT !.threw = TRUE]
    ELSE [Same EXCEPT
            !.workers = [n \in DOMAIN workers \cup {workerName} |->
                            IF n = workerName
                            THEN [mode |-> workerDefs[workerName].mode,
                                  ready |-> (workerDefs[workerName].mode = ModeLegacy)]
                            ELSE workers[n]],
            !.sent = IF workerDefs[workerName].mode = ModeProtocol
                     THEN <<WorkerPost(workerName, "worker.init", Null)>>
                     ELSE <<>>,
            !.made = workerName]

\* fault = "create": the Worker constructor throws
ensureWorker(workerName, fault) ==
    IF workerName \in DOMAIN workers
    THEN Same
    ELSE IF workerName \notin DOMAIN workerDefs \/ fault = "create"
    THEN [Same EXCEPT !.threw = TRUE]
    ELSE LET def == workerDefs[workerName]
             info == [mode |-> def.mode, ready |-> (def.mode = ModeLegacy)]
         IN  [Same EXCEPT
                !.workers = [n \in DOMAIN workers \cup {workerName} |->
                                IF n = workerName THEN info ELSE workers[n]],
                !.sent = IF info.mode = ModeProtocol
                         THEN <<WorkerPost(workerName, "worker.init", Null)>>
                         ELSE <<>>,
                !.made = workerName]

\* clearPending without clearTimeout
clearPendingKeepsTimer(p, tm, requestId) ==
    [pending |-> PendingDelete(p, requestId), timers |-> tm]

clearPending(p, tm, requestId) ==
    IF ~PendingHas(p, requestId)
    THEN [pending |-> p, timers |-> tm]
    ELSE [pending |-> PendingDelete(p, requestId),
          timers |-> {t \in tm : t.h # PendingGet(p, requestId).timeoutId}]

\* the loop of failPendingForWorker without the test of the owner
RECURSIVE failPendingLoopAnyOwner(_, _, _)
failPendingLoopAnyOwner(entries, st, workerName) ==
    IF entries = <<>> THEN st
    ELSE failPendingLoopAnyOwner(Tail(entries),
             [pending |-> PendingDelete(st.pending, Head(entries).id),
              timers |-> {t \in st.timers : t.h # Head(entries).timeoutId},
              out |-> Append(st.out, sendHxResponse(Head(entries).id, 502, "worker-failed", Null))],
             workerName)

\* the loop over state.pending.entries(): st = [pending, timers, out]
RECURSIVE failPendingLoop(_, _, _)
failPendingLoop(entries, st, workerName) ==
    IF entries = <<>> THEN st
    ELSE LET e == Head(entries)
         IN  IF e.workerName # workerName
             THEN failPendingLoop(Tail(entries), st, workerName)
             ELSE LET c == clearPending(st.pending, st.timers, e.id)
                  IN  failPendingLoop(Tail(entries),
                          [pending |-> c.pending, timers |-> c.timers,
                           out |-> Append(st.out, sendHxResponse(e.id, 502, "worker-failed", Null))],
                          workerName)

failPendingForWorker(workerName) ==
    failPendingLoop(pending, [pending |-> pending, timers |-> timers, out |-> <<>>], workerName)

-----------------------------------------------------------------------------
(* Inputs: messages and callbacks *)

\* A message as the handlers read it; src and w name the channel it came on.
NoMsg ==
    [src |-> "none", obj |-> TRUE, kind |-> "", mtype |-> "", w |-> "",
     id |-> Undefined, path |-> Undefined, status |-> NotFinite, state |-> "",
     fault |-> "none"]

PathZ == <<"/","z","z">>

\* requests with a usable id take every path; one request each stands for a
\* missing id, an empty id and an id that is no string
RequestIdPaths ==
    ({Str(R1), Str(R2)} \X {Undefined, Str(PathA), Str(PathNone), Str(LegacyRunPath),
                            Str(PathLegacyOther), Str(PathZ)})
    \cup ({Undefined, Str(<<>>), NotAString} \X {Str(PathA)})
    \cup ({Str(R1)} \X {Str(<<>>)})
Faults == {"none", "create", "post"}

HxRequestMsg(id, path, fault) ==
    [NoMsg EXCEPT !.src = "caller", !.kind = "hx.request", !.id = id, !.path = path,
                 !.fault = fault]

LegacyStates == {"starting", "running", "busy", "done", "error"}

WorkerMsgs(w) ==
    LET base == [NoMsg EXCEPT !.src = "worker", !.w = w]
    IN  {[base EXCEPT !.obj = FALSE]}
        \cup {[base EXCEPT !.kind = "worker.ready"]}
        \cup {[base EXCEPT !.kind = "worker.event", !.id = i] : i \in {Undefined, Str(R1)}}
        \cup {[base EXCEPT !.kind = "worker.response", !.id = i, !.status = Num(200)] :
                  i \in {Undefined, Str(R1), Str(R2)}}
        \cup {[base EXCEPT !.kind = "worker.response", !.id = Str(R1), !.status = NotFinite]}
        \cup {[base EXCEPT !.mtype = "log-batch"]}
        \cup {[base EXCEPT !.mtype = "status", !.state = st] : st \in LegacyStates}

\* `x || null` for an id field
IdOrNull(id) == IF id.t = "string" /\ Len(id.v) > 0 THEN id.v ELSE Null

-----------------------------------------------------------------------------
(* Messages from backend workers *)

\* the orphan test without the lookup in the pending table
isOrphanMissingIdOnly(requestId) == requestId = Null

\* `!requestId || !state.pending.has(requestId)`
isOrphan(requestId) == requestId = Null \/ ~PendingHas(pending, requestId)

\* handleProtocolWorkerMessage forwarding events without their id
handleProtocolWorkerMessageUntaggedEvents(w, msg) ==
    IF ~msg.obj THEN Same
    ELSE IF msg.kind = "worker.ready"
    THEN [Same EXCEPT !.workers = [workers EXCEPT ![w].ready = TRUE],
                      !.out = <<sendEvent(Null, "worker.ready", w)>>]
    ELSE IF msg.kind = "worker.event"
    THEN [Same EXCEPT !.out = <<sendEvent(Null, "worker.event", "")>>]
    ELSE IF msg.kind = "worker.response"
    THEN LET requestId == IdOrNull(msg.id)
         IN  IF isOrphan(requestId)
             THEN [Same EXCEPT !.out = <<sendProtocolError("ORPHAN_RESPONSE", requestId)>>]
             ELSE LET c == clearPending(pending, timers, requestId)
                  IN  [Same EXCEPT
                         !.pending = c.pending,
                         !.timers = c.timers,
                         !.out = <<sendHxResponse(requestId,
                                      IF msg.status.fin THEN msg.status.n ELSE 500,
                                      "worker", Null)>>]
    ELSE Same

handleProtocolWorkerMessage(w, msg) ==
    IF ~msg.obj THEN Same
    ELSE IF msg.kind = "worker.ready"
    THEN [Same EXCEPT !.workers = [workers EXCEPT ![w].ready = TRUE],
                      !.out = <<sendEvent(Null, "worker.ready", w)>>]
    ELSE IF msg.kind = "worker.event"
    THEN [Same EXCEPT !.out = <<sendEvent(IdOrNull(msg.id), "worker.event", "")>>]
    ELSE IF msg.kind = "worker.response"
    THEN LET requestId == IdOrNull(msg.id)
         IN  IF isOrphan(requestId)
             THEN [Same EXCEPT !.out = <<sendProtocolError("ORPHAN_RESPONSE", requestId)>>]
             ELSE LET c == clearPending(pending, timers, requestId)
                  IN  [Same EXCEPT
                         !.pending = c.pending,
                         !.timers = c.timers,
                         !.out = <<sendHxResponse(requestId,
                                      IF msg.status.fin THEN msg.status.n ELSE 500,
                                      "worker", Null)>>]
    ELSE Same

\* handleLegacyLiboqsMessage clearing the slot on every status
handleLegacyLiboqsMessageAnyStatus(w, msg) ==
    LET requestId == IF w \in DOMAIN activeLegacyByWorker
                     THEN activeLegacyByWorker[w] ELSE Null
    IN  IF ~msg.obj THEN Same
        ELSE IF msg.mtype = "log-batch"
        THEN [Same EXCEPT !.out = <<sendEvent(requestId, "legacy.log_batch", w)>>]
        ELSE IF msg.mtype = "status"
        THEN [Same EXCEPT
                !.out = <<sendEvent(requestId, "legacy.status", msg.state)>>,
                !.active = [n \in DOMAIN activeLegacyByWorker \ {w} |->
                               activeLegacyByWorker[n]]]
        ELSE Same

\* handleLegacyLiboqsMessage clearing the slot on done only
handleLegacyLiboqsMessageDoneOnly(w, msg) ==
    LET requestId == IF w \in DOMAIN activeLegacyByWorker
                     THEN activeLegacyByWorker[w] ELSE Null
    IN  IF ~msg.obj THEN Same
        ELSE IF msg.mtype = "log-batch"
        THEN [Same EXCEPT !.out = <<sendEvent(requestId, "legacy.log_batch", w)>>]
        ELSE IF msg.mtype = "status"
        THEN [Same EXCEPT
                !.out = <<sendEvent(requestId, "legacy.status", msg.state)>>,
                !.active = IF msg.state = "done"
                           THEN [n \in DOMAIN activeLegacyByWorker \ {w} |->
                                    activeLegacyByWorker[n]]
                           ELSE activeLegacyByWorker]
        ELSE Same

\* handleLegacyLiboqsMessage reading the slot after it was cleared
handleLegacyLiboqsMessageClearsFirst(w, msg) ==
    LET terminal == msg.mtype = "status" /\ msg.state \in {"done", "error"}
        requestId == IF w \in DOMAIN activeLegacyByWorker /\ ~terminal
                     THEN activeLegacyByWorker[w] ELSE Null
    IN  IF ~msg.obj THEN Same
        ELSE IF msg.mtype = "log-batch"
        THEN [Same EXCEPT !.out = <<sendEvent(requestId, "legacy.log_batch", w)>>]
        ELSE IF msg.mtype = "status"
        THEN [Same EXCEPT
                !.out = <<sendEvent(requestId, "legacy.status", msg.state)>>,
                !.active = IF terminal
                           THEN [n \in DOMAIN activeLegacyByWorker \ {w} |->
                                    activeLegacyByWorker[n]]
                           ELSE activeLegacyByWorker]
        ELSE Same

handleLegacyLiboqsMessage(w, msg) ==
    LET requestId == IF w \in DOMAIN activeLegacyByWorker
                     THEN activeLegacyByWorker[w] ELSE Null
    IN  IF ~msg.obj THEN Same
        ELSE IF msg.mtype = "log-batch"
        THEN [Same EXCEPT !.out = <<sendEvent(requestId, "legacy.log_batch", w)>>]
        ELSE IF msg.mtype = "status"
        THEN [Same EXCEPT
                !.out = <<sendEvent(requestId, "legacy.status", msg.state)>>,
                !.active = IF msg.state \in {"done", "error"}
                           THEN [n \in DOMAIN activeLegacyByWorker \ {w} |->
                                    activeLegacyByWorker[n]]
                           ELSE activeLegacyByWorker]
        ELSE Same

handleWorkerMessage(w, msg) ==
    IF workers[w].mode = ModeLegacy
    THEN handleLegacyLiboqsMessage(w, msg)
    ELSE handleProtocolWorkerMessage(w, msg)

-----------------------------------------------------------------------------
(* Requests from the caller *)

\* dispatchProtocolRequest without the test of info.ready
dispatchProtocolRequestNoReadyTest(requestId, workerName, fault) ==
    LET e == ensureWorker(workerName, fault)
        timeoutId == NewTimer(timers)
        reg == [e EXCEPT
                  !.timers = timers \cup {[h |-> timeoutId, id |-> requestId]},
                  !.pending = PendingSet(pending, requestId, workerName, timeoutId)]
    IN  IF e.threw THEN e
        ELSE IF fault = "post"
        THEN [reg EXCEPT !.threw = TRUE]
        ELSE [reg EXCEPT
                !.sent = Append(e.sent, WorkerPost(workerName, "worker.request", requestId))]

\* fault = "post": info.worker.postMessage throws
dispatchProtocolRequest(requestId, workerName, fault) ==
    LET e == ensureWorker(workerName, fault)
    IN  IF e.threw THEN e
        ELSE IF ~e.workers[workerName].ready
        THEN [e EXCEPT !.out = <<sendHxResponse(requestId, 503, "warming-up", Null)>>]
        ELSE LET timeoutId == NewTimer(timers)
                 reg == [e EXCEPT
                           !.timers = timers \cup {[h |-> timeoutId, id |-> requestId]},
                           !.pending = PendingSet(pending, requestId, workerName, timeoutId)]
             IN  IF fault = "post"
                 THEN [reg EXCEPT !.threw = TRUE]
                 ELSE [reg EXCEPT
                         !.sent = Append(e.sent, WorkerPost(workerName, "worker.request", requestId))]

\* dispatchLegacyLiboqsRequest without the test of the bound slot
dispatchLegacyLiboqsRequestNoBusyTest(requestId, workerName, path, fault) ==
    LET e == ensureWorker(workerName, fault)
    IN  IF e.threw THEN e
        ELSE IF path # LegacyRunPath
        THEN [e EXCEPT !.out = <<sendHxResponse(requestId, 404, "legacy-unsupported", Null)>>]
        ELSE LET bound == [e EXCEPT
                             !.active = [n \in DOMAIN activeLegacyByWorker \cup {workerName} |->
                                            IF n = workerName THEN requestId
                                            ELSE activeLegacyByWorker[n]]]
             IN  IF fault = "post"
                 THEN [bound EXCEPT !.threw = TRUE]
                 ELSE [bound EXCEPT
                         !.sent = Append(e.sent, WorkerPost(workerName, "run", Null)),
                         !.out = <<sendHxResponse(requestId, 202, "started", Null)>>]

\* dispatchLegacyLiboqsRequest without activeLegacyByWorker.set
dispatchLegacyLiboqsRequestNoBind(requestId, workerName, path, fault) ==
    LET e == ensureWorker(workerName, fault)
    IN  IF e.threw THEN e
        ELSE IF workerName \in DOMAIN activeLegacyByWorker
        THEN [e EXCEPT !.out = <<sendHxResponse(requestId, 409, "busy",
                                        escapeHtml(activeLegacyByWorker[workerName]))>>]
        ELSE IF path # LegacyRunPath
        THEN [e EXCEPT !.out = <<sendHxResponse(requestId, 404, "legacy-unsupported", Null)>>]
        ELSE IF fault = "post"
        THEN [e EXCEPT !.threw = TRUE]
        ELSE [e EXCEPT
                !.sent = Append(e.sent, WorkerPost(workerName, "run", Null)),
                !.out = <<sendHxResponse(requestId, 202, "started", Null)>>]

\* dispatchLegacyLiboqsRequest without the test of the path
dispatchLegacyLiboqsRequestAnyPath(requestId, workerName, path, fault) ==
    LET e == ensureWorker(workerName, fault)
    IN  IF e.threw THEN e
        ELSE IF workerName \in DOMAIN activeLegacyByWorker
        THEN [e EXCEPT !.out = <<sendHxResponse(requestId, 409, "busy",
                                        escapeHtml(activeLegacyByWorker[workerName]))>>]
        ELSE LET bound == [e EXCEPT
                             !.active = [n \in DOMAIN activeLegacyByWorker \cup {workerName} |->
                                            IF n = workerName THEN requestId
                                            ELSE activeLegacyByWorker[n]]]
             IN  IF fault = "post"
                 THEN [bound EXCEPT !.threw = TRUE]
                 ELSE [bound EXCEPT
                         !.sent = Append(e.sent, WorkerPost(workerName, "run", Null)),
                         !.out = <<sendHxResponse(requestId, 202, "started", Null)>>]

dispatchLegacyLiboqsRequest(requestId, workerName, path, fault) ==
    LET e == ensureWorker(workerName, fault)
    IN  IF e.threw THEN e
        ELSE IF workerName \in DOMAIN activeLegacyByWorker
        THEN [e EXCEPT !.out = <<sendHxResponse(requestId, 409, "busy",
                                        escapeHtml(activeLegacyByWorker[workerName]))>>]
        ELSE IF path # LegacyRunPath
        THEN [e EXCEPT !.out = <<sendHxResponse(requestId, 404, "legacy-unsupported", Null)>>]
        ELSE LET bound == [e EXCEPT
                             !.active = [n \in DOMAIN activeLegacyByWorker \cup {workerName} |->
                                            IF n = workerName THEN requestId
                                            ELSE activeLegacyByWorker[n]]]
             IN  IF fault = "post"
                 THEN [bound EXCEPT !.threw = TRUE]
                 ELSE [bound EXCEPT
                         !.sent = Append(e.sent, WorkerPost(workerName, "run", Null)),
                         !.out = <<sendHxResponse(requestId, 202, "started", Null)>>]

\* the two dispatch calls without the try/catch
dispatchUncaught(requestId, workerName, path, fault) ==
    IF workerDefs[workerName].mode = ModeLegacy
    THEN dispatchLegacyLiboqsRequest(requestId, workerName, path, fault)
    ELSE dispatchProtocolRequest(requestId, workerName, fault)

\* the try/catch around the two dispatch calls
dispatchCaught(requestId, workerName, path, fault) ==
    LET r == IF workerDefs[workerName].mode = ModeLegacy
             THEN dispatchLegacyLiboqsRequest(requestId, workerName, path, fault)
             ELSE dispatchProtocolRequest(requestId, workerName, fault)
    IN  IF r.threw
        THEN [r EXCEPT !.out = <<sendHxResponse(requestId, 500, "dispatch-error", Null)>>]
        ELSE r

\* handleHxRequest without the test of the id
handleHxRequestNoIdTest(msg) ==
    LET requestId == IdOrNull(msg.id)
    IN  IF msg.path.t # "string" \/ Len(msg.path.v) = 0
        THEN [Same EXCEPT !.out = <<sendHxResponse(requestId, 400, "missing-path", Null)>>]
        ELSE LET r == matchRoute(routes, msg.path.v)
             IN  IF r = 0
                 THEN [Same EXCEPT !.out = <<sendHxResponse(requestId, 404, "no-route",
                                                  escapeHtml(msg.path.v))>>]
                 ELSE IF routes[r].worker \notin DOMAIN workerDefs
                 THEN [Same EXCEPT !.out = <<sendHxResponse(requestId, 500,
                                                  "undefined-worker", Null)>>]
                 ELSE dispatchCaught(requestId, routes[r].worker, msg.path.v, msg.fault)

\* handleHxRequest echoing the path as it came
handleHxRequestRawEcho(msg) ==
    LET requestId == IdOrNull(msg.id)
    IN  IF requestId = Null
        THEN [Same EXCEPT !.out = <<sendProtocolError("INVALID_REQUEST", Null)>>]
        ELSE IF msg.path.t # "string" \/ Len(msg.path.v) = 0
        THEN [Same EXCEPT !.out = <<sendHxResponse(requestId, 400, "missing-path", Null)>>]
        ELSE LET r == matchRoute(routes, msg.path.v)
             IN  IF r = 0
                 THEN [Same EXCEPT !.out = <<sendHxResponse(requestId, 404, "no-route",
                                                  msg.path.v)>>]
                 ELSE IF routes[r].worker \notin DOMAIN workerDefs
                 THEN [Same EXCEPT !.out = <<sendHxResponse(requestId, 500,
                                                  "undefined-worker", Null)>>]
                 ELSE dispatchCaught(requestId, routes[r].worker, msg.path.v, msg.fault)

handleHxRequest(msg) ==
    LET requestId == IdOrNull(msg.id)
    IN  IF requestId = Null
        THEN [Same EXCEPT !.out = <<sendProtocolError("INVALID_REQUEST", Null)>>]
        ELSE IF msg.path.t # "string" \/ Len(msg.path.v) = 0
        THEN [Same EXCEPT !.out = <<sendHxResponse(requestId, 400, "missing-path", Null)>>]
        ELSE LET r == matchRoute(routes, msg.path.v)
             IN  IF r = 0
                 THEN [Same EXCEPT !.out = <<sendHxResponse(requestId, 404, "no-route",
                                                  escapeHtml(msg.path.v))>>]
                 ELSE IF routes[r].worker \notin DOMAIN workerDefs
                 THEN [Same EXCEPT !.out = <<sendHxResponse(requestId, 500,
                                                  "undefined-worker", Null)>>]
                 ELSE dispatchCaught(requestId, routes[r].worker, msg.path.v, msg.fault)

-----------------------------------------------------------------------------
(* The state machine *)

CountResponses(o, id) ==
    Cardinality({i \in 1..Len(o) : o[i].kind = "hx.response" /\ o[i].id = id})

\* One handler ran and left r behind; requestId is the id of the hx.request
\* it ran on, Null when it ran on anything else or on a request without id.
Step(isRequest, requestId, r) ==
    /\ workers' = r.workers
    /\ pending' = r.pending
    /\ timers' = r.timers
    /\ activeLegacyByWorker' = r.active
    /\ out' = r.out
    /\ sent' = r.sent
    /\ owed' = [i \in Ids |->
                  owed[i] + (IF requestId = i THEN 1 ELSE 0) - CountResponses(r.out, i)]
    /\ dup' = [i \in Ids |-> dup[i] \/ (requestId = i /\ owed[i] > 0)]
    /\ created' = [n \in WorkerNames |-> created[n] + (IF r.made = n THEN 1 ELSE 0)]
    /\ nReq' = nReq + (IF isRequest THEN 1 ELSE 0)

\* the liboqs worker as its script leaves it (lines 7-16), nothing in flight
InitLiboqs ==
    /\ running = FALSE
    /\ pyodideReady = "null"
    /\ logBuffer = 0
    /\ phase = "idle"
    /\ inbox = <<>>
    /\ posted = <<>>
    /\ runLog = <<>>
    /\ nRuns = 0

\* the crypto worker as its script leaves it (lines 8-9)
InitCrypto ==
    /\ port = "null"
    /\ keypair = "null"
    /\ requests = <<>>
    /\ replies = <<>>

Init ==
    /\ requestTimeoutMs = DEFAULT_TIMEOUT_MS
    /\ routes = <<>>
    /\ workerDefs = [n \in {} |-> [mode |-> ModeProtocol]]
    /\ workers = [n \in {} |-> [mode |-> ModeProtocol, ready |-> FALSE]]
    /\ pending = <<>>
    /\ activeLegacyByWorker = [n \in {} |-> Null]
    /\ timers = {}
    /\ out = <<>>
    /\ sent = <<>>
    /\ owed = [i \in Ids |-> 0]
    /\ dup = [i \in Ids |-> FALSE]
    /\ created = [n \in WorkerNames |-> 0]
    /\ nReq = 0
    /\ declared = <<>>
    /\ routed = {}
    /\ readySent = {}
    /\ InitLiboqs
    /\ InitCrypto

AckMsg(rs, count, timeout) ==
    [kind |-> "control.ready", id |-> Null, status |-> 0, code |-> "", event |-> "",
     tag |-> "", detail |-> Null, routes |-> rs, workerCount |-> count,
     requestTimeoutMs |-> timeout]

ConfigUnchanged == UNCHANGED <<routes, workerDefs, requestTimeoutMs, declared>>

\* the history of dispatches and ready signals grows by these worker names;
\* a handler of the router touches no variable of another worker's script
History(routedTo, readyFrom) ==
    /\ routed' = routed \cup routedTo
    /\ readySent' = readySent \cup readyFrom
    /\ UNCHANGED <<liboqsVars, cryptoVars>>

\* No handler reads out or sent: they only hold what the last handler posted
\* until Deliver takes it away.  A handler is therefore started from empty
\* outboxes, which leaves out no behaviour of the router.
Idle == out = <<>> /\ sent = <<>>

\* control.init starting from an empty pending table
ControlInitDropsPending(k) ==
    /\ Idle
    /\ routes' = applyInitRoutes(routes, InitMsgs[k])
    /\ workerDefs' = applyInitWorkers(workerDefs, InitMsgs[k])
    /\ requestTimeoutMs' = applyInitTimeout(requestTimeoutMs, InitMsgs[k])
    /\ declared' = IF InitMsgs[k].routesIsArray THEN InitMsgs[k].routes ELSE declared
    /\ Step(FALSE, Null,
            [Same EXCEPT !.pending = <<>>,
                         !.out = <<AckMsg(routes', Cardinality(DOMAIN workerDefs'),
                                          requestTimeoutMs')>>])
    /\ History({}, {})

\* self.onmessage, kind control.init, on the k-th message of InitMsgs
ControlInitOf(k) ==
    /\ Idle
    /\ routes' = applyInitRoutes(routes, InitMsgs[k])
    /\ workerDefs' = applyInitWorkers(workerDefs, InitMsgs[k])
    /\ requestTimeoutMs' = applyInitTimeout(requestTimeoutMs, InitMsgs[k])
    /\ declared' = IF InitMsgs[k].routesIsArray THEN InitMsgs[k].routes ELSE declared
    /\ Step(FALSE, Null,
            [Same EXCEPT !.out = <<AckMsg(routes', Cardinality(DOMAIN workerDefs'),
                                          requestTimeoutMs')>>])
    /\ History({}, {})

ControlInit == \E k \in 1..Len(InitMsgs) : ControlInitOf(k)

\* self.onmessage, kind control.ping or a kind the router does not know
ControlOther ==
    /\ Idle
    /\ \/ Step(FALSE, Null,
               [Same EXCEPT !.out = <<OutMsg("control.pong", Null, 0, "", "", "", Null)>>])
       \/ Step(FALSE, Null,
               [Same EXCEPT !.out = <<sendProtocolError("UNKNOWN_KIND", Null)>>])
    /\ ConfigUnchanged
    /\ History({}, {})

\* the worker a request is routed to, "" when validation rejects it
TargetOf(msg) ==
    IF IdOrNull(msg.id) = Null \/ msg.path.t # "string" \/ Len(msg.path.v) = 0
    THEN ""
    ELSE IF matchRoute(routes, msg.path.v) = 0
    THEN ""
    ELSE IF routes[matchRoute(routes, msg.path.v)].worker \notin DOMAIN workerDefs
    THEN ""
    ELSE routes[matchRoute(routes, msg.path.v)].worker

\* self.onmessage, kind hx.request.  A fault is offered only where the call
\* that throws is reached.
HxRequestOf(msg) ==
    /\ Idle
    /\ nReq < MaxRequests
    /\ \E r \in {handleHxRequest(msg)} :
          /\ msg.fault # "none" => r.threw
          /\ Step(TRUE, IdOrNull(msg.id), r)
    /\ ConfigUnchanged
    /\ History(IF TargetOf(msg) # "" /\ workerDefs[TargetOf(msg)].mode # ModeLegacy
               THEN {TargetOf(msg)} ELSE {}, {})

RequestMsgs ==
    {HxRequestMsg(ip[1], ip[2], fault) : ip \in RequestIdPaths, fault \in Faults}

HxRequest ==
    \E msg \in RequestMsgs : HxRequestOf(msg)

\* worker.onmessage of the worker of session w
WorkerMessageOf(w, msg) ==
    /\ Idle
    /\ w \in DOMAIN workers
    /\ \E r \in {handleWorkerMessage(w, msg)} : Step(FALSE, Null, r)
    /\ ConfigUnchanged
    /\ History({}, IF msg.obj /\ msg.kind = "worker.ready" THEN {w} ELSE {})

WorkerMessage == \E w \in DOMAIN workers : \E msg \in WorkerMsgs(w) : WorkerMessageOf(w, msg)

\* worker.onerror that also marks the session not ready
onerrorResetsReady(workerName) ==
    LET f == failPendingForWorker(workerName)
    IN  [Same EXCEPT !.workers = [workers EXCEPT ![workerName].ready = FALSE],
                     !.pending = f.pending, !.timers = f.timers,
                     !.out = Append(f.out, sendProtocolError("WORKER_ERROR", Null))]

\* worker.onerror of the worker of session workerName
onerror(workerName) ==
    LET f == failPendingForWorker(workerName)
    IN  [Same EXCEPT !.pending = f.pending, !.timers = f.timers,
                     !.out = Append(f.out, sendProtocolError("WORKER_ERROR", Null))]

WorkerErrorOf(w) ==
    /\ Idle
    /\ w \in DOMAIN workers
    /\ \E r \in {onerror(w)} : Step(FALSE, Null, r)
    /\ ConfigUnchanged
    /\ History({}, {})

WorkerError == \E w \in DOMAIN workers : WorkerErrorOf(w)

\* the timeout callback without clearPending
onTimeoutKeepsEntry(t) ==
    [Same EXCEPT !.timers = timers \ {t},
                 !.out = <<sendHxResponse(t.id, 504, "timeout", Null)>>]

\* the setTimeout callback of dispatchProtocolRequest; t is the timer that fires
onTimeout(t) ==
    LET c == clearPending(pending, timers \ {t}, t.id)
    IN  [Same EXCEPT !.pending = c.pending, !.timers = c.timers,
                     !.out = <<sendHxResponse(t.id, 504, "timeout", Null)>>]

TimerFireOf(t) ==
    /\ Idle
    /\ t \in timers
    /\ \E r \in {onTimeout(t)} : Step(FALSE, Null, r)
    /\ ConfigUnchanged
    /\ History({}, {})

TimerFire == \E t \in timers : TimerFireOf(t)

\* the posted messages leave the router
Deliver ==
    /\ ~Idle
    /\ out' = <<>>
    /\ sent' = <<>>
    /\ UNCHANGED <<requestTimeoutMs, routes, workerDefs, workers, pending,
                   activeLegacyByWorker, timers, owed, dup, created, nReq, declared,
                   routed, readySent>>
    /\ UNCHANGED <<liboqsVars, cryptoVars>>

Next ==
    \/ Deliver
    \/ ControlInit
    \/ ControlOther
    \/ HxRequest
    \/ WorkerMessage
    \/ WorkerError
    \/ TimerFire

Spec == Init /\ [][Next]_vars

-----------------------------------------------------------------------------
(* Routing alone: the router after one control.init that carried any route  *)
(* list of up to MaxRoutes entries, answering requests.                     *)

RoutePrefixes == {<<>>, PrefixA, PathA}

RouteEntries ==
    {RouteEntry(prefix, w) : prefix \in RoutePrefixes, w \in {WA, WZ}} \cup {BadRouteEntry}

RouteLists == UNION {[1..n -> RouteEntries] : n \in 0..MaxRoutes}

ProbePaths == {PathA, PrefixA, PathNone}

InitMatch ==
    /\ declared \in RouteLists
    /\ routes = applyInitRoutes(<<>>, InitMsg(TRUE, declared, FALSE, NoEntries, NoTimeout))
    /\ requestTimeoutMs = DEFAULT_TIMEOUT_MS
    /\ workerDefs = [n \in {} |-> [mode |-> ModeProtocol]]
    /\ workers = [n \in {} |-> [mode |-> ModeProtocol, ready |-> FALSE]]
    /\ pending = <<>>
    /\ activeLegacyByWorker = [n \in {} |-> Null]
    /\ timers = {}
    /\ out = <<>>
    /\ sent = <<>>
    /\ owed = [i \in Ids |-> 0]
    /\ dup = [i \in Ids |-> FALSE]
    /\ created = [n \in WorkerNames |-> 0]
    /\ nReq = 0
    /\ routed = {}
    /\ readySent = {}
    /\ InitLiboqs
    /\ InitCrypto

RouteProbe == \E path \in ProbePaths : HxRequestOf(HxRequestMsg(Str(R1), Str(path), "none"))

NextMatch ==
    \/ RouteProbe
    \/ Deliver

SpecMatch == InitMatch /\ [][NextMatch]_vars

-----------------------------------------------------------------------------
(* The liboqs test worker (src/workers/liboqs_worker.js lines 1-147): one    *)
(* async message handler that runs the suite under the `running` flag, and *)
(* a log buffer flushed by size, by an interval timer and at the end of a  *)
(* run.  An action is one task of the worker's event loop: the handler up  *)
(* to an await that yields, or the continuation of such an await.          *)

LOG_BATCH_MAX == 40

\* runs the worker may accept
MaxRuns == 2

\* messages the worker may have posted that their receiver has not handled yet
MaxPosted == 4

\* log entries that may wait in the buffer for the interval timer
MaxBuffered == 1

StatusMsg(state) == [type |-> "status", state |-> state]

LogBatchMsg == [type |-> "log-batch", state |-> ""]

\* the type field of the messages the worker may receive: a run message, or
\* anything else (no type, or another one)
MessageTypes == {"run", ""}

\* flushLogs on a buffer of n entries: the messages it posts
flushLogs(n) == IF n = 0 THEN <<>> ELSE <<LogBatchMsg>>

\* the statuses of the accepted run among msgs
RunStatuses(msgs) ==
    LET own == SelectSeq(msgs, LAMBDA m : m.type = "status" /\ m.state # "busy")
    IN  [i \in 1..Len(own) |-> own[i].state]

\* the catch and finally blocks of the handler (lines 137-146)
LiboqsFails(before) ==
    /\ posted' = posted \o before \o flushLogs(logBuffer) \o <<StatusMsg("error")>>
    /\ logBuffer' = 0
    /\ running' = FALSE
    /\ phase' = "idle"

\* self.onmessage without the test of the running flag
LiboqsOnMessageNoRunningTest(type) ==
    IF type # "run"
    THEN UNCHANGED <<running, pyodideReady, logBuffer, phase, posted, runLog, nRuns>>
    ELSE /\ nRuns' = nRuns + 1
         /\ IF pyodideReady = "resolved"
            THEN /\ running' = TRUE
                 /\ phase' = "python"
                 /\ posted' = posted \o <<StatusMsg("starting"), StatusMsg("running")>>
                 /\ runLog' = <<"starting", "running">>
                 /\ UNCHANGED <<pyodideReady, logBuffer>>
            ELSE IF pyodideReady = "rejected"
            THEN /\ LiboqsFails(<<StatusMsg("starting")>>)
                 /\ runLog' = <<"starting", "error">>
                 /\ UNCHANGED pyodideReady
            ELSE /\ running' = TRUE
                 /\ pyodideReady' = "loading"
                 /\ phase' = "init"
                 /\ posted' = Append(posted, StatusMsg("starting"))
                 /\ runLog' = <<"starting">>
                 /\ UNCHANGED logBuffer

\* self.onmessage (lines 118-147) on a message of this type, up to the first
\* await that yields.  initPyodide returns the promise it made before; when
\* that promise is already settled the handler goes on in a microtask, before
\* any other task of the worker: to the second await when it resolved, and
\* through catch and finally when it rejected.
LiboqsOnMessage(type) ==
    IF type # "run"
    THEN UNCHANGED <<running, pyodideReady, logBuffer, phase, posted, runLog, nRuns>>
    ELSE IF running
    THEN /\ posted' = Append(posted, StatusMsg("busy"))
         /\ UNCHANGED <<running, pyodideReady, logBuffer, phase, runLog, nRuns>>
    ELSE /\ nRuns' = nRuns + 1
         /\ IF pyodideReady = "resolved"
            THEN /\ running' = TRUE
                 /\ phase' = "python"
                 /\ posted' = posted \o <<StatusMsg("starting"), StatusMsg("running")>>
                 /\ runLog' = <<"starting", "running">>
                 /\ UNCHANGED <<pyodideReady, logBuffer>>
            ELSE IF pyodideReady = "rejected"
            THEN /\ LiboqsFails(<<StatusMsg("starting")>>)
                 /\ runLog' = <<"starting", "error">>
                 /\ UNCHANGED pyodideReady
            ELSE /\ running' = TRUE
                 /\ pyodideReady' = "loading"
                 /\ phase' = "init"
                 /\ posted' = Append(posted, StatusMsg("starting"))
                 /\ runLog' = <<"starting">>
                 /\ UNCHANGED logBuffer

\* the first load settles: the handler goes on after `await initPyodide()`
\* (line 133 when it resolved, lines 137-146 when it rejected)
LiboqsInitSettles(ok) ==
    /\ phase = "init"
    /\ pyodideReady = "loading"
    /\ pyodideReady' = IF ok THEN "resolved" ELSE "rejected"
    /\ IF ok
       THEN /\ posted' = Append(posted, StatusMsg("running"))
            /\ phase' = "python"
            /\ runLog' = Append(runLog, "running")
            /\ UNCHANGED <<running, logBuffer>>
       ELSE /\ LiboqsFails(<<>>)
            /\ runLog' = Append(runLog, "error")
    /\ UNCHANGED <<inbox, nRuns>>

\* the Python run settles: the handler goes on after `await runPythonAsync`
\* (lines 135-136 when it returned, lines 137-143 when it threw; then finally)
LiboqsPythonSettles(ok) ==
    /\ phase = "python"
    /\ posted' = posted \o flushLogs(logBuffer)
                        \o <<StatusMsg(IF ok THEN "done" ELSE "error")>>
    /\ logBuffer' = 0
    /\ running' = FALSE
    /\ phase' = "idle"
    /\ runLog' = Append(runLog, IF ok THEN "done" ELSE "error")
    /\ UNCHANGED <<pyodideReady, inbox, nRuns>>

\* enqueueLog (lines 24-29) called k times in a row by the running suite: the
\* buffer is flushed when it reaches LOG_BATCH_MAX entries
LiboqsLog(k) ==
    /\ phase = "python"
    /\ posted' = IF logBuffer + k >= LOG_BATCH_MAX THEN Append(posted, LogBatchMsg) ELSE posted
    /\ logBuffer' = IF logBuffer + k >= LOG_BATCH_MAX THEN logBuffer + k - LOG_BATCH_MAX
                    ELSE logBuffer + k
    /\ UNCHANGED <<running, pyodideReady, phase, inbox, runLog, nRuns>>

\* the setInterval callback (lines 31-35) finding entries in the buffer
LiboqsInterval ==
    /\ logBuffer > 0
    /\ posted' = Append(posted, LogBatchMsg)
    /\ logBuffer' = 0
    /\ UNCHANGED <<running, pyodideReady, phase, inbox, runLog, nRuns>>

\* room for what one task of the worker may post
PostedHasRoom == Len(posted) + 2 <= MaxPosted

\* the tasks of the worker other than its message handler; none of them
\* touches the router or the crypto worker
LiboqsInitSettled ==
    /\ PostedHasRoom
    /\ \E ok \in BOOLEAN : LiboqsInitSettles(ok)
    /\ UNCHANGED <<routerVars, cryptoVars>>

LiboqsPythonSettled ==
    /\ PostedHasRoom
    /\ \E ok \in BOOLEAN : LiboqsPythonSettles(ok)
    /\ UNCHANGED <<routerVars, cryptoVars>>

LiboqsLogged ==
    /\ PostedHasRoom
    /\ \E k \in {1, LOG_BATCH_MAX} :
          /\ (logBuffer + k) % LOG_BATCH_MAX <= MaxBuffered
          /\ LiboqsLog(k)
    /\ UNCHANGED <<routerVars, cryptoVars>>

LiboqsFlushed ==
    /\ PostedHasRoom
    /\ LiboqsInterval
    /\ UNCHANGED <<routerVars, cryptoVars>>

-----------------------------------------------------------------------------
(* The liboqs worker alone: any page sends it messages and takes what it    *)
(* posts.                                                                   *)

\* a message of any type arrives at the worker
LiboqsMessage ==
    /\ PostedHasRoom
    /\ \E type \in MessageTypes :
          /\ (type = "run" /\ ~running) => nRuns < MaxRuns
          /\ LiboqsOnMessage(type)
    /\ UNCHANGED <<inbox, routerVars, cryptoVars>>

\* the receiver handles the oldest message the worker posted
LiboqsTaken ==
    /\ posted # <<>>
    /\ posted' = Tail(posted)
    /\ UNCHANGED <<running, pyodideReady, logBuffer, phase, inbox, runLog, nRuns>>
    /\ UNCHANGED <<routerVars, cryptoVars>>

NextLiboqs ==
    \/ LiboqsMessage
    \/ LiboqsInitSettled
    \/ LiboqsPythonSettled
    \/ LiboqsLogged
    \/ LiboqsFlushed
    \/ LiboqsTaken

SpecLiboqs == Init /\ [][NextLiboqs]_vars

-----------------------------------------------------------------------------
(* The router composed with the liboqs worker: the Worker object of session *)
(* wl runs the liboqs script; what the router posts to wl arrives in the    *)
(* worker's inbox and what the worker posts arrives at worker.onmessage of  *)
(* the session, both in the order of posting.                               *)

\* the requests that can reach the liboqs worker
LegacyRequestMsgs ==
    {HxRequestMsg(Str(id), Str(path), fault) :
        id \in Ids, path \in {LegacyRunPath, PathLegacyOther}, fault \in Faults}

LegacyRequest == \E msg \in LegacyRequestMsgs : HxRequestOf(msg)

\* the type field the liboqs worker reads in a message the router posted: only
\* the run message of line 572 has one
TypeOfPost(m) == IF m.kind = "run" THEN "run" ELSE ""

\* a message of the liboqs worker as worker.onmessage of the session reads it
ReportOf(m) ==
    [NoMsg EXCEPT !.src = "worker", !.w = WL, !.mtype = m.type, !.state = m.state]

\* the posted messages leave the router; those for wl enter the worker's inbox
LegacyDeliver ==
    /\ ~Idle
    /\ out' = <<>>
    /\ sent' = <<>>
    /\ inbox' = LET mine == SelectSeq(sent, LAMBDA m : m.to = WL)
                IN  inbox \o [i \in 1..Len(mine) |-> TypeOfPost(mine[i])]
    /\ UNCHANGED <<requestTimeoutMs, routes, workerDefs, workers, pending,
                   activeLegacyByWorker, timers, owed, dup, created, nReq, declared,
                   routed, readySent>>
    /\ UNCHANGED <<running, pyodideReady, logBuffer, phase, posted, runLog, nRuns>>
    /\ UNCHANGED cryptoVars

\* the liboqs worker handles the oldest message of its inbox
LiboqsReceives ==
    /\ inbox # <<>>
    /\ PostedHasRoom
    /\ LiboqsOnMessage(Head(inbox))
    /\ inbox' = Tail(inbox)
    /\ UNCHANGED <<routerVars, cryptoVars>>

\* worker.onmessage of session wl on the oldest message the worker posted
LegacyReport ==
    /\ Idle
    /\ posted # <<>>
    /\ WL \in DOMAIN workers
    /\ \E r \in {handleWorkerMessage(WL, ReportOf(Head(posted)))} : Step(FALSE, Null, r)
    /\ ConfigUnchanged
    /\ UNCHANGED <<routed, readySent>>
    /\ posted' = Tail(posted)
    /\ UNCHANGED <<running, pyodideReady, logBuffer, phase, inbox, runLog, nRuns>>
    /\ UNCHANGED cryptoVars

\* worker.onerror of session wl
LegacyWorkerError == WL \in DOMAIN workers /\ WorkerErrorOf(WL)

NextLegacy ==
    \/ LegacyDeliver
    \/ ControlInit
    \/ LegacyRequest
    \/ LegacyReport
    \/ LegacyWorkerError
    \/ TimerFire
    \/ LiboqsReceives
    \/ LiboqsInitSettled
    \/ LiboqsPythonSettled
    \/ LiboqsLogged
    \/ LiboqsFlushed

SpecLegacy == Init /\ [][NextLegacy]_vars

-----------------------------------------------------------------------------
(* The crypto worker (src/workers/crypto_worker.js): after an init message *)
(* carrying a port it answers the requests that arrive on the port.        *)

\* requests delivered to the port
MaxCryptoRequests == 2

CryptoIds == {"u1", "u2"}

CryptoOps == {"hash", "sign", "verify", "ping", "other"}

\* the data of a request: missing; an object whose message is a string, or
\* one whose message is an array of bytes, both with well-formed hexadecimal
\* fields; an object whose signature is not hexadecimal
CryptoData == {"undefined", "string", "bytes", "badhex"}

\* fails: a call into libsodium, or the post of the result, throws for a
\* reason of its own
CryptoRequests ==
    [id : CryptoIds, op : CryptoOps, data : CryptoData, fails : BOOLEAN]

Absent == [present |-> FALSE, v |-> ""]

Present(v) == [present |-> TRUE, v |-> v]

\* the try block of handleRequest (lines 28-64): what it posted and whether
\* it threw
handleRequestTry(req) ==
    LET throws ==
            \/ req.data = "undefined"                        \* data.message, line 29
            \/ req.fails
            \/ req.op = "sign" /\ keypair = "null"           \* keypair.privateKey, line 40
            \/ req.op = "verify" /\ req.data = "badhex"      \* sodium.from_hex, line 49
            \/ req.op \notin {"hash", "sign", "verify", "ping"}   \* line 61
        result ==
            IF req.op = "hash" THEN "hash"
            ELSE IF req.op = "sign" THEN "signature"
            ELSE IF req.op = "verify" THEN "valid"
            ELSE "pong"
    IN  IF throws
        THEN [posted |-> <<>>, threw |-> TRUE]
        ELSE [posted |-> <<[id |-> req.id, result |-> Present(result), error |-> Absent]>>,
              threw |-> FALSE]

\* handleRequest without its catch block
handleRequestUncaught(req) == handleRequestTry(req).posted

\* handleRequest (lines 24-68): the messages it posts to the port
handleRequest(req) ==
    LET t == handleRequestTry(req)
    IN  IF t.threw
        THEN t.posted \o <<[id |-> req.id, result |-> Absent, error |-> Present("message")]>>
        ELSE t.posted

\* self.onmessage on an init message, up to `await sodium.ready` (lines 12-16)
CryptoInit ==
    /\ port' = "set"
    /\ UNCHANGED <<keypair, requests, replies>>
    /\ UNCHANGED <<routerVars, liboqsVars>>

\* the continuation after `await sodium.ready` (lines 17-20)
CryptoReady ==
    /\ port = "set"
    /\ keypair' = "set"
    /\ UNCHANGED <<port, requests, replies>>
    /\ UNCHANGED <<routerVars, liboqsVars>>

\* port.onmessage on a request
CryptoRequest ==
    /\ port = "set"
    /\ Len(requests) < MaxCryptoRequests
    /\ \E req \in CryptoRequests :
          /\ requests' = Append(requests, req)
          /\ replies' = replies \o handleRequest(req)
    /\ UNCHANGED <<port, keypair>>
    /\ UNCHANGED <<routerVars, liboqsVars>>

NextCrypto ==
    \/ CryptoInit
    \/ CryptoReady
    \/ CryptoRequest

SpecCrypto == Init /\ [][NextCrypto]_vars

-----------------------------------------------------------------------------
(* Properties *)

Range(f) == {f[i] : i \in DOMAIN f}

Responses(o) == {i \in 1..Len(o) : o[i].kind = "hx.response"}

WorkerRequests(o) == {i \in 1..Len(o) : o[i].kind = "worker.request"}

\* the one message of o is an hx.response for id with this status
IsOneResponse(o, id, status) ==
    /\ Len(o) = 1
    /\ o[1].kind = "hx.response"
    /\ o[1].id = id
    /\ o[1].status = status

\* a worker.response handled by the native adapter
IsNativeResponse(w, msg) ==
    /\ workers[w].mode # ModeLegacy
    /\ msg.obj
    /\ msg.kind = "worker.response"

\* C1: for a request id the caller never reuses while a request with it is
\* unanswered, the router never emits more hx.responses with that id than it
\* received hx.requests with it (at most one response per request).
C1_AtMostOneResponse == \A i \in Ids : ~dup[i] => owed[i] >= 0

\* C2: at any moment every request id has received exactly one hx.response
\* per hx.request, or its last request is still in the pending table and all
\* earlier ones were answered once.
C2_OneResponseOrPending ==
    \A i \in Ids : owed[i] = 0 \/ (owed[i] = 1 /\ PendingHas(pending, i))

\* C3: when a request's timer fires while the pending entry it was armed for
\* still exists, the entry is removed, the timer is gone, and the handler
\* emits exactly one hx.response, with status 504 and the request's id.
C3_TimeoutClearsAndAnswers ==
    [][\A t \in timers :
          (/\ TimerFireOf(t)
           /\ PendingHas(pending, t.id)
           /\ PendingGet(pending, t.id).timeoutId = t.h)
          => (/\ ~PendingHas(pending', t.id)
              /\ t \notin timers'
              /\ IsOneResponse(out', t.id, 504))]_vars

C3_Witness ==
    \E i \in Ids : /\ IsOneResponse(out, i, 504)
                   /\ owed[i] = 0
                   /\ ~dup[i]
                   /\ ~PendingHas(pending, i)

\* C4: when the native adapter receives a worker.response whose id has a
\* pending entry, the entry is removed, its timer is no longer armed, and the
\* handler emits exactly one message: an hx.response with that id and the
\* worker's status, or 500 when that status is no finite number.
C4_MatchingResponseResolves ==
    [][\A w \in DOMAIN workers : \A msg \in WorkerMsgs(w) :
          (/\ WorkerMessageOf(w, msg)
           /\ IsNativeResponse(w, msg)
           /\ PendingHas(pending, IdOrNull(msg.id)))
          => (/\ ~PendingHas(pending', IdOrNull(msg.id))
              /\ \A t \in timers' : t.h # PendingGet(pending, IdOrNull(msg.id)).timeoutId
              /\ IsOneResponse(out', IdOrNull(msg.id),
                               IF msg.status.fin THEN msg.status.n ELSE 500))]_vars

C4_Witness ==
    /\ IsOneResponse(out, R1, 500)
    /\ out[1].tag = "worker"
    /\ owed[R1] = 0
    /\ ~PendingHas(pending, R1)

\* C5: a worker.response handled by the native adapter whose id is missing or
\* has no pending entry makes the handler emit exactly one message, an error
\* with code ORPHAN_RESPONSE (so no hx.response), and leaves the pending
\* table, the timers, the sessions and the legacy slots as they were.
C5_OrphanResponse ==
    [][\A w \in DOMAIN workers : \A msg \in WorkerMsgs(w) :
          (/\ WorkerMessageOf(w, msg)
           /\ IsNativeResponse(w, msg)
           /\ ~PendingHas(pending, IdOrNull(msg.id)))
          => (/\ Len(out') = 1
              /\ out'[1].kind = "error"
              /\ out'[1].code = "ORPHAN_RESPONSE"
              /\ out'[1].id = IdOrNull(msg.id)
              /\ pending' = pending
              /\ timers' = timers
              /\ workers' = workers
              /\ activeLegacyByWorker' = activeLegacyByWorker)]_vars

\* an orphan of an id that is not pending, while another request is pending
C5_Witness ==
    /\ Len(out) = 1
    /\ out[1].code = "ORPHAN_RESPONSE"
    /\ out[1].id = R1
    /\ PendingIds(pending) = {R2}

\* C6: an hx.request whose id is in the pending table is rejected: the
\* pending table and the armed timers stay as they were and no worker.request
\* is posted.
C6_DuplicateIdRejected ==
    [][\A msg \in RequestMsgs :
          (HxRequestOf(msg) /\ PendingHas(pending, IdOrNull(msg.id)))
          => (/\ pending' = pending
              /\ timers' = timers
              /\ WorkerRequests(sent') = {})]_vars

\* C7: a request routed to a native-mode worker whose session, existing or
\* just created, is not ready is answered in the same handler by exactly one
\* hx.response with status 503; the pending table and the timers stay as they
\* were and no worker.request is posted.
C7_NotReadyIs503 ==
    [][\A msg \in RequestMsgs :
          (/\ HxRequestOf(msg)
           /\ TargetOf(msg) # ""
           /\ workerDefs[TargetOf(msg)].mode # ModeLegacy
           /\ TargetOf(msg) \in DOMAIN workers'
           /\ ~workers'[TargetOf(msg)].ready)
          => (/\ IsOneResponse(out', IdOrNull(msg.id), 503)
              /\ pending' = pending
              /\ timers' = timers
              /\ WorkerRequests(sent') = {})]_vars

\* a second request to a session that exists and is still not ready
C7_Witness ==
    /\ Len(out) = 1
    /\ out[1].status = 503
    /\ sent = <<>>
    /\ nReq >= 2
    /\ pending = <<>>

ReadyMsg(w) == [NoMsg EXCEPT !.src = "worker", !.w = w, !.kind = "worker.ready"]

\* C8: a session is created ready exactly when its mode is legacy-liboqs (a
\* native session is created not ready), and a session that was not ready
\* becomes ready only in the handler of a worker.ready message of its own
\* worker.
C8_ReadinessOnlyByReadySignal ==
    [][\A w \in WorkerNames :
          /\ (w \notin DOMAIN workers /\ w \in DOMAIN workers')
                => (workers'[w].ready <=> workers'[w].mode = ModeLegacy)
          /\ (w \in DOMAIN workers /\ ~workers[w].ready /\ workers'[w].ready)
                => WorkerMessageOf(w, ReadyMsg(w))]_vars

C8_Witness ==
    \E w \in DOMAIN workers :
        /\ workers[w].mode = ModeProtocol
        /\ workers[w].ready
        /\ out = <<sendEvent(Null, "worker.ready", w)>>

C10_WorkerErrorFailsOwned ==
    [][\A w \in DOMAIN workers :
          WorkerErrorOf(w)
          => (/\ \A e \in Range(pending) :
                    IF e.workerName = w
                    THEN /\ ~PendingHas(pending', e.id)
                         /\ \A t \in timers' : t.h # e.timeoutId
                         /\ CountResponses(out', e.id) = 1
                    ELSE /\ e \in Range(pending')
                         /\ [h |-> e.timeoutId, id |-> e.id] \in timers'
              /\ \A k \in Responses(out') :
                    /\ out'[k].status = 502
                    /\ \E e \in Range(pending) : e.workerName = w /\ e.id = out'[k].id
              /\ Cardinality({k \in 1..Len(out') : out'[k].kind = "error"}) = 1
              /\ out'[Len(out')].code = "WORKER_ERROR"
              /\ workers' = workers)]_vars

\* a worker with two pending requests failed
C10_Witness ==
    /\ Len(out) = 3
    /\ out[1].status = 502
    /\ out[2].status = 502
    /\ out[3].code = "WORKER_ERROR"
    /\ pending = <<>>
    /\ timers = {}

\* a request the dispatcher hands to the legacy adapter
IsLegacyRequest(msg) ==
    /\ TargetOf(msg) # ""
    /\ workerDefs[TargetOf(msg)].mode = ModeLegacy

RunMessages(o, w) == {i \in 1..Len(o) : o[i].kind = "run" /\ o[i].to = w}

\* a log-batch or status message handled by the legacy adapter
IsLegacyReport(w, msg) ==
    /\ workers[w].mode = ModeLegacy
    /\ msg.obj
    /\ msg.mtype \in {"log-batch", "status"}

\* C11: a legacy request to a worker whose slot is bound to another request
\* id is answered by exactly one hx.response, with status 409 and a body that
\* names (HTML-escaped, as everything the bodies echo) the id the slot is
\* bound to; the slots stay as they were and no run message is posted.
C11_BusyLegacyIs409 ==
    [][\A msg \in RequestMsgs :
          (/\ HxRequestOf(msg)
           /\ IsLegacyRequest(msg)
           /\ TargetOf(msg) \in DOMAIN activeLegacyByWorker
           /\ activeLegacyByWorker[TargetOf(msg)] # IdOrNull(msg.id))
          => (/\ IsOneResponse(out', IdOrNull(msg.id), 409)
              /\ out'[1].detail = escapeHtml(activeLegacyByWorker[TargetOf(msg)])
              /\ activeLegacyByWorker' = activeLegacyByWorker
              /\ sent' = <<>>)]_vars

\* the slot is bound to "r<" and the request r1 is told so
C11_Witness ==
    /\ IsOneResponse(out, R1, 409)
    /\ out[1].detail = <<"r","&","l","t",";">>
    /\ WL \in DOMAIN activeLegacyByWorker
    /\ activeLegacyByWorker[WL] = R2

C13_TerminalStatusClearsSlot ==
    [][/\ \A w \in DOMAIN workers : \A msg \in WorkerMsgs(w) :
            (/\ WorkerMessageOf(w, msg)
             /\ IsLegacyReport(w, msg)
             /\ msg.mtype = "status")
            => IF msg.state \in {"done", "error"}
               THEN /\ w \notin DOMAIN activeLegacyByWorker'
                    /\ \A n \in DOMAIN activeLegacyByWorker \ {w} :
                          /\ n \in DOMAIN activeLegacyByWorker'
                          /\ activeLegacyByWorker'[n] = activeLegacyByWorker[n]
               ELSE activeLegacyByWorker' = activeLegacyByWorker
       /\ \A msg \in RequestMsgs :
            (/\ HxRequestOf(msg)
             /\ IsLegacyRequest(msg)
             /\ msg.path.v = LegacyRunPath
             /\ TargetOf(msg) \notin DOMAIN activeLegacyByWorker)
            => (/\ \A k \in Responses(out') : out'[k].status # 409
                /\ msg.fault = "none" => IsOneResponse(out', IdOrNull(msg.id), 202))]_vars

\* the slot was bound to r1 and the worker reported error: the slot is unbound
C13_Witness ==
    /\ out = <<sendEvent(R1, "legacy.status", "error")>>
    /\ WL \in DOMAIN workers
    /\ WL \notin DOMAIN activeLegacyByWorker
    /\ nReq < MaxRequests

\* C14: while the slot of a worker is bound to a request id, the legacy
\* adapter turns every log-batch and status message of that worker into
\* exactly one event carrying that id, a done or error status included, and
\* emits no hx.response.
C14_LegacyReportsTaggedWithBoundId ==
    [][\A w \in DOMAIN workers : \A msg \in WorkerMsgs(w) :
          (/\ WorkerMessageOf(w, msg)
           /\ IsLegacyReport(w, msg)
           /\ w \in DOMAIN activeLegacyByWorker)
          => (/\ Len(out') = 1
              /\ out'[1].kind = "event"
              /\ out'[1].id = activeLegacyByWorker[w]
              /\ out'[1].event = (IF msg.mtype = "status" THEN "legacy.status"
                                  ELSE "legacy.log_batch")
              /\ Responses(out') = {}
              /\ owed' = owed)]_vars

\* a terminal status of a run bound to r1: an event for r1, the slot unbound
C14_Witness ==
    /\ out = <<sendEvent(R1, "legacy.status", "done")>>
    /\ WL \notin DOMAIN activeLegacyByWorker
    /\ owed[R1] = 0

\* C15 as stated: every request routed to a legacy-mode worker with a path
\* other than the supported one, in whose dispatch nothing throws, is
\* answered by one hx.response with status 404, binds no slot and posts no
\* run message.
C15_UnsupportedLegacyPathIs404 ==
    [][\A msg \in RequestMsgs :
          (/\ HxRequestOf(msg)
           /\ IsLegacyRequest(msg)
           /\ msg.path.v # LegacyRunPath
           /\ msg.fault = "none")
          => (/\ IsOneResponse(out', IdOrNull(msg.id), 404)
              /\ activeLegacyByWorker' = activeLegacyByWorker
              /\ \A n \in WorkerNames : RunMessages(sent', n) = {})]_vars

\* C15 amended: every request routed to a legacy-mode worker with a path
\* other than the supported one binds no slot, posts no run message and is
\* answered by exactly one hx.response: with status 409 when the slot of the
\* worker is bound, with status 500 when creating the session throws, and
\* with status 404 otherwise.
C15_UnsupportedLegacyPathRejected ==
    [][\A msg \in RequestMsgs :
          (/\ HxRequestOf(msg)
           /\ IsLegacyRequest(msg)
           /\ msg.path.v # LegacyRunPath)
          => (/\ IsOneResponse(out', IdOrNull(msg.id),
                     IF TargetOf(msg) \in DOMAIN activeLegacyByWorker THEN 409
                     ELSE IF msg.fault = "create" THEN 500
                     ELSE 404)
              /\ activeLegacyByWorker' = activeLegacyByWorker
              /\ \A n \in WorkerNames : RunMessages(sent', n) = {})]_vars

\* an unsupported path on the legacy route, the worker idle: 404, no slot
C15_Witness ==
    /\ IsOneResponse(out, R1, 404)
    /\ out[1].tag = "legacy-unsupported"
    /\ WL \in DOMAIN workers
    /\ WL \notin DOMAIN activeLegacyByWorker
    /\ sent = <<>>

\* the valid entries of the declared route list, in the order of declaration
ValidDeclared ==
    LET kept == SelectSeq(declared, RouteOk)
    IN  [i \in 1..Len(kept) |-> [prefix |-> kept[i].prefix.v, worker |-> kept[i].worker.v]]

\* C16: for the declared route list and every path, matchRoute finds no route
\* exactly when no valid declared prefix is a literal prefix of the path, and
\* otherwise returns the declared binding whose prefix is the longest one
\* that is a prefix of the path, the earliest declared among those of that
\* length.
C16_LongestPrefixEarliestDeclared ==
    \A path \in ProbePaths :
        LET v == ValidDeclared
            M == {i \in 1..Len(v) : startsWith(path, v[i].prefix)}
            r == matchRoute(routes, path)
        IN  IF M = {} THEN r = 0
            ELSE /\ r \in 1..Len(routes)
                 /\ \E i \in M :
                       /\ \A j \in M : Len(v[j].prefix) <= Len(v[i].prefix)
                       /\ \A j \in M : Len(v[j].prefix) = Len(v[i].prefix) => i <= j
                       /\ routes[r] = v[i]

\* a catch-all declared first, then the same prefix twice with two workers:
\* the request for /a/x was routed to the earlier of the two
C16_Witness ==
    /\ declared = <<RouteEntry(<<>>, WA), RouteEntry(PrefixA, WZ), RouteEntry(PrefixA, WA)>>
    /\ routes[matchRoute(routes, PathA)].worker = WZ
    /\ IsOneResponse(out, R1, 500)
    /\ out[1].tag = "undefined-worker"

\* the handler left the sessions, the pending table, the timers and the
\* legacy slots as they were, constructed no Worker and posted nothing to a
\* worker
NothingDispatched ==
    /\ workers' = workers
    /\ created' = created
    /\ pending' = pending
    /\ timers' = timers
    /\ activeLegacyByWorker' = activeLegacyByWorker
    /\ sent' = <<>>

\* C17: an hx.request whose id is missing, no string or the empty string makes
\* the handler emit exactly one message, an error with code INVALID_REQUEST
\* and id null (so no hx.response), create no session and leave the pending
\* table, the timers and the legacy slots as they were.
C17_InvalidIdIsProtocolError ==
    [][\A msg \in RequestMsgs :
          (HxRequestOf(msg) /\ (msg.id.t # "string" \/ Len(msg.id.v) = 0))
          => (/\ Len(out') = 1
              /\ out'[1].kind = "error"
              /\ out'[1].code = "INVALID_REQUEST"
              /\ out'[1].id = Null
              /\ owed' = owed
              /\ NothingDispatched)]_vars

\* an invalid request arrived while a request was pending
C17_Witness ==
    /\ out = <<sendProtocolError("INVALID_REQUEST", Null)>>
    /\ pending # <<>>
    /\ nReq >= 2

\* C18: an hx.request with a valid id is validated in this order: a path that
\* is missing, no string or empty is answered 400; otherwise a path that no
\* route prefix matches is answered 404 with a body that echoes the path
\* HTML-escaped; otherwise a route whose worker has no definition is answered
\* 500.  Each answer is the one message of the handler, and the handler
\* creates no session and changes no pending entry, timer or legacy slot.
C18_ValidationOrder ==
    [][\A msg \in RequestMsgs :
          (HxRequestOf(msg) /\ IdOrNull(msg.id) # Null)
          => IF msg.path.t # "string" \/ Len(msg.path.v) = 0
             THEN IsOneResponse(out', IdOrNull(msg.id), 400) /\ NothingDispatched
             ELSE IF \A i \in 1..Len(routes) : ~startsWith(msg.path.v, routes[i].prefix)
             THEN /\ IsOneResponse(out', IdOrNull(msg.id), 404)
                  /\ out'[1].detail = escapeHtml(msg.path.v)
                  /\ NothingDispatched
             ELSE routes[matchRoute(routes, msg.path.v)].worker \notin DOMAIN workerDefs
                  => IsOneResponse(out', IdOrNull(msg.id), 500) /\ NothingDispatched]_vars

\* the path /z<& matched no route and came back escaped
C18_Witness ==
    /\ IsOneResponse(out, R1, 404)
    /\ out[1].detail = <<"/","z","&","l","t",";","&","a","m","p",";">>
    /\ routes # <<>>

\* the valid entries of a control.init message
ValidRoutesOf(msg) ==
    IF msg.routesIsArray
    THEN {[prefix |-> r.prefix.v, worker |-> r.worker.v] :
             r \in {x \in Range(msg.routes) :
                       x.obj /\ x.prefix.t = "string" /\ x.worker.t = "string"}}
    ELSE {}

ValidWorkersOf(msg) ==
    IF msg.workersIsObject
    THEN {n \in DOMAIN msg.workers : msg.workers[n].obj /\ msg.workers[n].urlIsString}
    ELSE {}

\* C19: after a control.init message the route list holds exactly the valid
\* route entries of that message and the worker-definition map exactly its
\* valid definitions: nothing of an earlier initialization stays.
C19_InitReplacesState ==
    [][\A k \in 1..Len(InitMsgs) :
          ControlInitOf(k)
          => (/\ Range(routes') = ValidRoutesOf(InitMsgs[k])
              /\ DOMAIN workerDefs' = ValidWorkersOf(InitMsgs[k]))]_vars

ResponseMsg(w, id) ==
    [NoMsg EXCEPT !.src = "worker", !.w = w, !.kind = "worker.response",
                  !.id = Str(id), !.status = Num(200)]

\* C20: a control.init message leaves the sessions with their readiness, the
\* pending table, the armed timers and the legacy slots as they were, posts
\* nothing to a worker and emits no hx.response; every request pending at
\* that moment is still resolved afterwards: its timer is armed and its
\* expiry removes the entry and emits one 504 for the request, and a
\* worker.response for it is handled as it would have been before, which for a
\* native session removes the entry and emits one hx.response for it.
C20_InitKeepsSessionsAndPending ==
    [][\A k \in 1..Len(InitMsgs) :
          ControlInitOf(k)
          => (/\ workers' = workers
              /\ created' = created
              /\ pending' = pending
              /\ timers' = timers
              /\ activeLegacyByWorker' = activeLegacyByWorker
              /\ sent' = <<>>
              /\ Responses(out') = {}
              /\ \A e \in Range(pending) :
                    LET t == [h |-> e.timeoutId, id |-> e.id]
                        rm == ResponseMsg(e.workerName, e.id)
                    IN  /\ t \in timers'
                        /\ ~PendingHas(onTimeout(t).pending', e.id)
                        /\ IsOneResponse(onTimeout(t).out', e.id, 504)
                        /\ handleWorkerMessage(e.workerName, rm)'
                              = handleWorkerMessage(e.workerName, rm)
                        /\ workers'[e.workerName].mode # ModeLegacy
                              => (/\ ~PendingHas(handleWorkerMessage(e.workerName, rm).pending', e.id)
                                  /\ IsOneResponse(handleWorkerMessage(e.workerName, rm).out',
                                                   e.id, 200)))]_vars

\* a control.init without the route /a was acknowledged while a request
\* routed through /a is pending at worker wa
C20_Witness ==
    /\ Len(out) = 1
    /\ out[1].kind = "control.ready"
    /\ \A i \in 1..Len(routes) : routes[i].prefix # PrefixA
    /\ \E i \in 1..Len(pending) : pending[i].workerName = WA
    /\ timers # {}

ProbeMsg(path) == HxRequestMsg(Str(R1), Str(path), "none")

\* C21: after a control.init whose route list is a strict subset of the route
\* list in force before it, a path that matched routes of the old list and
\* only such as the new list lacks matches no route of the table, and a
\* request (with an id) whose path matches no route of the table is answered by
\* one hx.response with status 404.  (Only control.init writes the table.)
C21_RemovedRouteIs404 ==
    [][/\ \A k \in 1..Len(InitMsgs) :
          (/\ ControlInitOf(k)
           /\ InitMsgs[k].routesIsArray
           /\ ValidRoutesOf(InitMsgs[k]) \subseteq Range(routes)
           /\ ValidRoutesOf(InitMsgs[k]) # Range(routes))
          => \A msg \in RequestMsgs :
                (/\ IdOrNull(msg.id) # Null
                 /\ msg.path.t = "string"
                 /\ \E r \in Range(routes) : startsWith(msg.path.v, r.prefix)
                 /\ \A r \in Range(routes) :
                       startsWith(msg.path.v, r.prefix) => r \notin ValidRoutesOf(InitMsgs[k]))
                => matchRoute(routes', msg.path.v) = 0
       /\ \A msg \in RequestMsgs :
             (/\ HxRequestOf(msg)
              /\ IdOrNull(msg.id) # Null
              /\ msg.path.t = "string"
              /\ Len(msg.path.v) > 0
              /\ matchRoute(routes, msg.path.v) = 0)
             => IsOneResponse(out', IdOrNull(msg.id), 404)
       /\ (\A k \in 1..Len(InitMsgs) : ~ControlInitOf(k)) => routes' = routes]_vars

\* the routes were cut down to /zz after wa had served /a: /a/x finds no route
C21_Witness ==
    /\ IsOneResponse(out, R1, 404)
    /\ out[1].detail = escapeHtml(PathA)
    /\ Len(routes) = 1
    /\ routes[1].prefix = PrefixZ
    /\ created[WA] = 1

\* C22: a control.init message with malformed entries is handled like any
\* other: the valid route entries of its list become the route table (the
\* malformed ones are not in it), its valid worker definitions are stored
\* under their names with their mode (protocol when the mode is no string),
\* a malformed definition neither adds nor changes a definition, and the one
\* message emitted is a control.ready that carries the route table, the
\* number of worker definitions and the timeout now in force.
C22_InitDropsMalformedAndAcknowledges ==
    [][\A k \in 1..Len(InitMsgs) :
          ControlInitOf(k)
          => LET msg == InitMsgs[k]
             IN  /\ msg.routesIsArray => Range(routes') = ValidRoutesOf(msg)
                 /\ \A n \in ValidWorkersOf(msg) :
                       /\ n \in DOMAIN workerDefs'
                       /\ workerDefs'[n].mode = (IF msg.workers[n].mode.t = "string"
                                                 THEN msg.workers[n].mode.v ELSE ModeProtocol)
                 /\ \A n \in WorkerNames \ ValidWorkersOf(msg) :
                       IF n \in DOMAIN workerDefs
                       THEN n \in DOMAIN workerDefs' /\ workerDefs'[n] = workerDefs[n]
                       ELSE n \notin DOMAIN workerDefs'
                 /\ Len(out') = 1
                 /\ out'[1].kind = "control.ready"
                 /\ out'[1].routes = routes'
                 /\ out'[1].workerCount = Cardinality(DOMAIN workerDefs')
                 /\ out'[1].requestTimeoutMs = requestTimeoutMs']_vars

\* the message with a definition that lacks its url was acknowledged: two
\* definitions were accepted, the malformed one was not
C22_Witness ==
    /\ Len(out) = 1
    /\ out[1].kind = "control.ready"
    /\ out[1].workerCount = 2
    /\ DOMAIN workerDefs = {WA, WL}
    /\ out[1].routes = <<>>
    /\ out[1].requestTimeoutMs = DEFAULT_TIMEOUT_MS

\* C23: when the Worker constructor or the send to the worker throws in the
\* dispatch of a request, the handler completes and emits exactly one
\* message, an hx.response with status 500 and the id of the request; when the
\* constructor threw, the router is as it was before the request.
C23_DispatchExceptionIs500 ==
    [][\A msg \in RequestMsgs :
          (HxRequestOf(msg) /\ msg.fault # "none")
          => (/\ IsOneResponse(out', IdOrNull(msg.id), 500)
              /\ msg.fault = "create" => NothingDispatched)]_vars

\* the send to a ready native worker threw
C23_Witness ==
    /\ Len(out) = 1
    /\ out[1].tag = "dispatch-error"
    /\ out[1].status = 500
    /\ sent = <<>>
    /\ \E w \in DOMAIN workers : workers[w].mode = ModeProtocol /\ workers[w].ready

RoutesTargetDefinedWorkers(rs, defs) == \A r \in Range(rs) : r.worker \in DOMAIN defs

\* C24 as stated: in every reachable state every route of the route table
\* targets a worker name that has a definition, and no request is answered
\* with the status 500 of a route that targets an undefined worker.
C24_RoutesTargetDefinedWorkers ==
    /\ RoutesTargetDefinedWorkers(routes, workerDefs)
    /\ \A i \in 1..Len(out) : out[i].tag # "undefined-worker"

\* C24 amended: the router accepts routes and definitions independently.  A
\* control.init whose valid routes (or, when it carries no route list, the
\* routes in force) all target workers that it defines or that were defined
\* before leaves every route targeting a defined worker, because definitions
\* are never removed; and a request is answered with the 500 of an undefined
\* worker exactly when its id and path are valid and the route its path
\* matches targets a worker without definition.
C24_RoutesDefinedWhenDeclaredSo ==
    [][/\ \A k \in 1..Len(InitMsgs) :
             (/\ ControlInitOf(k)
              /\ \A r \in (IF InitMsgs[k].routesIsArray
                           THEN ValidRoutesOf(InitMsgs[k]) ELSE Range(routes)) :
                    r.worker \in ValidWorkersOf(InitMsgs[k]) \cup DOMAIN workerDefs)
             => RoutesTargetDefinedWorkers(routes', workerDefs')
       /\ DOMAIN workerDefs \subseteq DOMAIN workerDefs'
       /\ \A msg \in RequestMsgs :
             HxRequestOf(msg)
             => ((\E i \in 1..Len(out') : out'[i].tag = "undefined-worker")
                 <=> (/\ IdOrNull(msg.id) # Null
                      /\ msg.path.t = "string"
                      /\ Len(msg.path.v) > 0
                      /\ matchRoute(routes, msg.path.v) # 0
                      /\ routes[matchRoute(routes, msg.path.v)].worker
                            \notin DOMAIN workerDefs))]_vars

\* a route list arrived before any definition: /zz targets the undefined wz
\* and a request for it was answered 500
C24_Witness ==
    /\ IsOneResponse(out, R1, 500)
    /\ out[1].tag = "undefined-worker"
    /\ ~RoutesTargetDefinedWorkers(routes, workerDefs)
    /\ workers = << >>

ArmedFor(p) == {[h |-> e.timeoutId, id |-> e.id] : e \in Range(p)}

\* C25: in every reachable state the armed timers are exactly the timers of
\* the pending entries, one per entry, and no timer is armed for a request id
\* all of whose requests have been answered.
C25_TimersMatchPending ==
    /\ timers = ArmedFor(pending)
    /\ Cardinality(timers) = Len(pending)
    /\ \A t \in timers : owed[t.id] > 0

\* C27: when the dispatch of a request throws and the request is answered
\* with status 500, afterwards no pending entry, no armed timer and no legacy
\* slot carries the id of that request.
C27_FailedDispatchLeavesNothing ==
    [][\A msg \in RequestMsgs :
          (HxRequestOf(msg) /\ msg.fault # "none")
          => (/\ ~PendingHas(pending', IdOrNull(msg.id))
              /\ \A t \in timers' : t.id # IdOrNull(msg.id)
              /\ \A n \in DOMAIN activeLegacyByWorker' :
                    activeLegacyByWorker'[n] # IdOrNull(msg.id))]_vars

\* C28: every session's mode is the mode of the current definition of its
\* worker name.
C28_SessionModeIsDefinitionMode ==
    \A n \in DOMAIN workers :
        /\ n \in DOMAIN workerDefs
        /\ workers[n].mode = workerDefs[n].mode

\* a message the adapter of session w turns into an event
IsEventReport(w, msg) ==
    /\ msg.obj
    /\ IF workers[w].mode = ModeLegacy
       THEN msg.mtype \in {"log-batch", "status"}
       ELSE msg.kind = "worker.event"

C29_SlotClearedOnlyByTerminalStatus ==
    [][/\ \A n \in DOMAIN activeLegacyByWorker :
             (n \notin DOMAIN activeLegacyByWorker'
                \/ activeLegacyByWorker'[n] # activeLegacyByWorker[n])
             => (/\ n \in DOMAIN workers
                 /\ workers[n].mode = ModeLegacy
                 /\ \E msg \in WorkerMsgs(n) :
                       /\ WorkerMessageOf(n, msg)
                       /\ msg.obj
                       /\ msg.mtype = "status"
                       /\ msg.state \in {"done", "error"})
       /\ \A w \in DOMAIN workers :
             WorkerErrorOf(w) => activeLegacyByWorker' = activeLegacyByWorker
       /\ \A msg \in RequestMsgs :
             (/\ HxRequestOf(msg)
              /\ TargetOf(msg) \in DOMAIN activeLegacyByWorker)
             => (/\ IsOneResponse(out', IdOrNull(msg.id), 409)
                 /\ activeLegacyByWorker' = activeLegacyByWorker)]_vars

\* C30: the first request ever dispatched to a worker name through the native
\* adapter (nothing throwing) is answered with status 503, and a
\* worker.request is posted to a worker only after that worker has posted
\* worker.ready.
C30_FirstNativeRequestIs503 ==
    [][\A msg \in RequestMsgs :
          (/\ HxRequestOf(msg)
           /\ TargetOf(msg) # ""
           /\ workerDefs[TargetOf(msg)].mode # ModeLegacy
           /\ msg.fault = "none")
          => (/\ TargetOf(msg) \notin routed
                    => IsOneResponse(out', IdOrNull(msg.id), 503)
              /\ (\E i \in WorkerRequests(sent') : sent'[i].to = TargetOf(msg))
                    => TargetOf(msg) \in readySent)]_vars

\* C31: a session that is ready stays a session and stays ready in every step
\* of the router; the error callback of a worker changes no session at all; so
\* no request routed to a worker whose session is ready is answered 503, and
\* one dispatched through the native adapter is registered in the pending
\* table and, when the send does not throw, forwarded to the worker.
C31_ReadinessIsMonotone ==
    [][/\ \A w \in DOMAIN workers :
             workers[w].ready => (w \in DOMAIN workers' /\ workers'[w].ready)
       /\ \A w \in DOMAIN workers : WorkerErrorOf(w) => workers' = workers
       /\ \A msg \in RequestMsgs :
             (/\ HxRequestOf(msg)
              /\ TargetOf(msg) \in DOMAIN workers
              /\ workers[TargetOf(msg)].ready)
             => (/\ \A i \in Responses(out') : out'[i].status # 503
                 /\ workerDefs[TargetOf(msg)].mode # ModeLegacy
                       => (/\ PendingHas(pending', IdOrNull(msg.id))
                           /\ PendingGet(pending', IdOrNull(msg.id)).workerName = TargetOf(msg)
                           /\ msg.fault = "none"
                                 => \E i \in WorkerRequests(sent') :
                                       /\ sent'[i].to = TargetOf(msg)
                                       /\ sent'[i].id = IdOrNull(msg.id)))]_vars

\* the error callback of a ready native worker has just run: the session is
\* still there and still ready
C31_Witness ==
    /\ Len(out) >= 1
    /\ out[Len(out)].code = "WORKER_ERROR"
    /\ DOMAIN workers = {WZ}
    /\ workers[WZ].mode = ModeProtocol
    /\ workers[WZ].ready

\* the status sequences a run may have emitted so far
RunLogs ==
    {<<>>, <<"starting">>, <<"starting", "running">>, <<"starting", "error">>,
     <<"starting", "running", "done">>, <<"starting", "running", "error">>}

\* what the step appended to posted
NewlyPosted == SubSeq(posted', Len(posted) + 1, Len(posted'))

\* C33: the liboqs worker runs one suite at a time.  A run message handled
\* while running is answered with exactly one status busy and changes nothing
\* else; a run message handled while not running is accepted and its first
\* message is status starting; the statuses of an accepted run are starting,
\* then running exactly when initialization succeeded, then one terminal done
\* or error and nothing after it; the running flag is true exactly from the
\* acceptance to the terminal status; every status of the run is posted in the
\* step that records it.
C33_OneRunAtATime ==
    [][/\ (LiboqsOnMessage("run") /\ running)
             => (/\ posted' = Append(posted, StatusMsg("busy"))
                 /\ UNCHANGED <<running, pyodideReady, logBuffer, phase, runLog, nRuns>>)
       /\ (LiboqsOnMessage("run") /\ ~running)
             => (/\ nRuns' = nRuns + 1
                 /\ Len(posted') > Len(posted)
                 /\ posted'[Len(posted) + 1] = StatusMsg("starting")
                 /\ runLog'[1] = "starting")
       /\ runLog' \in RunLogs
       /\ running' <=> runLog' \in {<<"starting">>, <<"starting", "running">>}
       /\ running' <=> phase' # "idle"
       /\ (Len(runLog') > 1 /\ runLog'[2] = "running") <=>
             (Len(runLog') > 1 /\ pyodideReady' = "resolved")
       /\ IF Len(posted') >= Len(posted)
          THEN /\ SubSeq(posted', 1, Len(posted)) = posted
               /\ runLog' = (IF nRuns' > nRuns THEN <<>> ELSE runLog) \o RunStatuses(NewlyPosted)
               /\ nRuns' = nRuns => \A i \in 1..Len(NewlyPosted) :
                                        NewlyPosted[i] = StatusMsg("busy") => running
          ELSE UNCHANGED <<running, runLog, nRuns>>]_vars

\* a second run was accepted and ended with done; a run message that came
\* during it was answered busy
C33_Witness ==
    /\ nRuns = 2
    /\ ~running
    /\ runLog = <<"starting", "running", "done">>
    /\ posted = <<StatusMsg("busy"), StatusMsg("done")>>

\* C32: in the composition, while a run message of the router is on its way
\* to the liboqs worker (posted by the last handler, or in the worker's inbox)
\* the worker is not running and no other run message is on its way; the
\* worker runs only while the slot of wl is bound; and no status busy is ever
\* among the messages the worker posts.
C32_NoRunWhileRunning ==
    /\ (\E i \in 1..Len(inbox) : inbox[i] = "run") \/ RunMessages(sent, WL) # {}
          => ~running
    /\ Cardinality({i \in 1..Len(inbox) : inbox[i] = "run"})
          + Cardinality(RunMessages(sent, WL)) <= 1
    /\ running => WL \in DOMAIN activeLegacyByWorker
    /\ \A i \in 1..Len(posted) : posted[i] # StatusMsg("busy")

\* the worker has accepted the second run the router sent it
C32_Witness ==
    /\ nRuns = 2
    /\ running
    /\ WL \in DOMAIN activeLegacyByWorker
    /\ activeLegacyByWorker[WL] = R2

\* C34: the handling of a request delivered to the port of the crypto worker
\* posts exactly one reply; the reply carries the id of the request and has a
\* result or an error, never both and never neither; a request with an
\* unknown op, and one whose operation throws, gets an error.
C34_OneReplyPerRequest ==
    [][requests' # requests
          => /\ Len(replies') = Len(replies) + 1
             /\ SubSeq(replies', 1, Len(replies)) = replies
             /\ LET q == requests'[Len(requests')]
                    r == replies'[Len(replies')]
                IN  /\ r.id = q.id
                    /\ r.result.present # r.error.present
                    /\ (q.op = "other" \/ q.fails \/ (q.op = "sign" /\ keypair = "null"))
                          => r.error.present]_vars

\* a request with an unknown op got its error, a ping after it its result
C34_Witness ==
    /\ Len(requests) = 2
    /\ requests[1].op = "other"
    /\ requests[2].op = "ping"
    /\ Len(replies) = 2
    /\ replies[1].error.present
    /\ replies[2].result.present

====
